---- MODULE Spec2Model ----
(***************************************************************************)
(* pypandoc/pandoc_download.py: download_pandoc and the three platform     *)
(* unpackers, as a state machine over a small filesystem.                  *)
(*                                                                         *)
(* Paths, URLs and versions are strings; file modes are integers whose     *)
(* bits are computed as the code computes them.  Every call that can fail  *)
(* in the environment (urlopen, writing the archive, makedirs, the         *)
(* external commands, copyfile, stat/chmod) has a failing outcome.         *)
(***************************************************************************)
EXTENDS Integers, Sequences, FiniteSets, TLC

VARIABLES
    sys_platform,   \* sys.platform of the machine
    architecture,   \* platform.architecture()[0]
    umask,          \* the process umask (decides the mode of created files)
    cwd,            \* os.getcwd()
    dirs,           \* the directories that exist
    files,          \* the files that exist: path -> st_mode permission bits
    runs,           \* invocations of download_pandoc so far
    pc,             \* position in download_pandoc / the unpacker
    exc,            \* the exception in flight, "none" when there is none
    url, targetfolder, version,     \* the arguments (optional values)
    pandoc_urls, pf, filename,      \* locals of download_pandoc
    tempfolder, cur_wd, exe_i,      \* locals of the unpacker
    log,            \* history: the effects attempted by this invocation
    entry,          \* history: the filesystem when this invocation began
    fetched         \* history: archive paths written by a completed download

env    == <<sys_platform, architecture, umask>>
fs     == <<cwd, dirs, files>>
args   == <<url, targetfolder, version>>
locals == <<pandoc_urls, pf, filename>>
hlocal == <<tempfolder, cur_wd, exe_i>>
vars   == <<sys_platform, architecture, umask, cwd, dirs, files, runs, pc, exc,
            url, targetfolder, version, pandoc_urls, pf, filename,
            tempfolder, cur_wd, exe_i, log, entry, fetched>>

---------------------------------------------------------------------------
(* Bounds *)

MaxRuns == 2        \* invocations of download_pandoc in one behaviour
MaxVerLen == 3      \* length of the version strings the URL resolver is tried on

---------------------------------------------------------------------------
(* Optional arguments: Python's None against a given value *)

NoneArg == [is_none |-> TRUE, val |-> ""]
Some(v) == [is_none |-> FALSE, val |-> v]

(* Strings *)

StartsWith(s, p) == Len(s) >= Len(p) /\ SubSeq(s, 1, Len(p)) = p
EndsWith(s, p) == Len(s) >= Len(p) /\ SubSeq(s, Len(s) - Len(p) + 1, Len(s)) = p

RECURSIVE LastSlash(_, _)
LastSlash(s, i) ==
    IF i = 0 THEN 0
    ELSE IF SubSeq(s, i, i) = "/" THEN i
    ELSE LastSlash(s, i - 1)

\* url.split("/")[-1]
LastSegment(s) == SubSeq(s, LastSlash(s, Len(s)) + 1, Len(s))

(* Integers as bit strings *)

RECURSIVE BitAnd(_, _)
BitAnd(a, b) ==
    IF a = 0 \/ b = 0 THEN 0
    ELSE (a % 2) * (b % 2) + 2 * BitAnd(a \div 2, b \div 2)

RECURSIVE BitOr(_, _)
BitOr(a, b) ==
    IF a = 0 THEN b
    ELSE IF b = 0 THEN a
    ELSE (IF a % 2 = 1 \/ b % 2 = 1 THEN 1 ELSE 0) + 2 * BitOr(a \div 2, b \div 2)

ShiftRight(a, n) == a \div (2 ^ n)

---------------------------------------------------------------------------
(* The machine *)

Platforms == {"linux", "linux2", "darwin", "win32", "cygwin"}
Architectures == {"64bit", "32bit"}
Umasks == {18, 23}      \* 0o022, 0o027

Sep == IF sys_platform = "win32" THEN "\\" ELSE "/"
Home == IF sys_platform = "win32" THEN "C:\\Users\\u" ELSE "/home/u"
WorkDir == "/work"

IsAbs(p) == StartsWith(p, "/") \/ (Len(p) >= 3 /\ SubSeq(p, 2, 3) = ":\\")

\* os.path.join(a, b)
Join(a, b) == IF IsAbs(b) THEN b ELSE a \o Sep \o b

\* os.path.abspath(p) with the working directory c
AbsPath(c, p) ==
    IF IsAbs(p) THEN p
    ELSE IF p = "." THEN c
    ELSE IF StartsWith(p, "." \o Sep) THEN c \o Sep \o SubSeq(p, 3, Len(p))
    ELSE c \o Sep \o p

\* os.path.expanduser(p)
ExpandUser(p) == IF StartsWith(p, "~") THEN Home \o SubSeq(p, 2, Len(p)) ELSE p

\* os.path.isfile(p)
isfile(p) == p # "" /\ AbsPath(cwd, p) \in DOMAIN files

\* the mode of a file that open(..., 'wb') creates: 0o666 & ~umask
CreateMode == BitAnd(438, 511 - umask)

\* open(path, 'wb') and write: a new file gets CreateMode, an existing one keeps
\* its mode
WriteFile(f, path) ==
    [p \in DOMAIN f \cup {path} |->
        IF p = path /\ path \notin DOMAIN f THEN CreateMode ELSE f[p]]

\* tempfile.mkdtemp(): a fresh directory
FreshTemp == "/tmp/tmp" \o ToString(runs)

Under(p, d) == StartsWith(p, d \o Sep)

\* shutil.rmtree(d)
RmtreeDirs(d) == {x \in dirs : x # d /\ ~Under(x, d)}
RmtreeFiles(d) == [p \in {x \in DOMAIN files : ~Under(x, d)} |-> files[p]]

Event(op, ok) == [op |-> op, ok |-> ok, arg |-> ""]
Logged(op, ok) == Append(log, Event(op, ok))
LoggedCopy(dst, ok) == Append(log, [op |-> "copy", ok |-> ok, arg |-> dst])

---------------------------------------------------------------------------
(* Module-level data *)

DEFAULT_TARGET_FOLDER_nodarwin ==
    [k \in {"win32", "linux"} |->
        IF k = "win32" THEN "~\\AppData\\Local\\Pandoc" ELSE "~/bin"]

DEFAULT_TARGET_FOLDER ==
    [k \in {"win32", "linux", "darwin"} |->
        IF k = "win32" THEN "~\\AppData\\Local\\Pandoc"
        ELSE IF k = "linux" THEN "~/bin"
        ELSE "~/Applications/pandoc"]

\* the names globals() holds
Globals ==
    {"DEFAULT_TARGET_FOLDER", "_get_pandoc_urls", "_make_executable",
     "_handle_linux", "_handle_darwin", "_handle_win32", "download_pandoc"}

_get_pandoc_urls_once(v) ==
    LET url_base == "https://github.com/jgm/pandoc/releases/download/" \o v \o "/pandoc"
    IN  [k \in {"win32", "linux", "darwin"} |->
            IF k = "win32" THEN url_base \o "-windows.msi"
            ELSE IF k = "linux" THEN url_base \o "-1" \o "-amd64.deb"
            ELSE url_base \o "-osx.pkg"]

_get_pandoc_urls(v) ==
    LET deb_subffix == "-1"
        url_base == "https://github.com/jgm/pandoc/releases/download/" \o v
                    \o "/pandoc-" \o v
    IN  [k \in {"win32", "linux", "darwin"} |->
            IF k = "win32" THEN url_base \o "-windows.msi"
            ELSE IF k = "linux" THEN url_base \o deb_subffix \o "-amd64.deb"
            ELSE url_base \o "-osx.pkg"]

_make_executable_mode_shift1(mode) == BitOr(mode, ShiftRight(BitAnd(mode, 292), 1))

\* mode |= (mode & 0o444) >> 2
_make_executable_mode(mode) == BitOr(mode, ShiftRight(BitAnd(mode, 292), 2))

---------------------------------------------------------------------------
(* The arguments the callers pass.  The pipeline runs with the default     *)
(* version; SpecUrls below resolves the URLs of every version string.      *)

UrlArgs == {NoneArg, Some("http://example.org/dl/pandoc.deb"), Some("http://example.org/dl/")}
TargetArgs == {NoneArg, Some("/opt/pandoc"), Some(".")}
VersionArgs == {NoneArg}

Alphabet == {"1", "9", ".", "/"}

RECURSIVE StringsUpTo(_)
StringsUpTo(n) ==
    IF n = 0 THEN {""}
    ELSE LET S == StringsUpTo(n - 1) IN S \cup {s \o c : s \in S, c \in Alphabet}

VersionStrings == StringsUpTo(MaxVerLen) \cup {"1.19.1"}

---------------------------------------------------------------------------
(* Initial state: a machine on which download_pandoc has not run *)

NoLocals ==
    /\ pandoc_urls = <<>>
    /\ pf = ""
    /\ filename = ""
    /\ tempfolder = ""
    /\ cur_wd = ""
    /\ exe_i = 0

Init ==
    /\ sys_platform \in Platforms
    /\ architecture \in Architectures
    /\ umask \in Umasks
    /\ cwd = WorkDir
    /\ dirs = {WorkDir}
    /\ files = <<>>
    /\ runs = 0
    /\ pc = "idle"
    /\ exc = "none"
    /\ url = NoneArg /\ targetfolder = NoneArg /\ version = NoneArg
    /\ NoLocals
    /\ log = <<>>
    /\ entry = [cwd |-> WorkDir, dirs |-> {WorkDir}, files |-> <<>>, fetched |-> {}]
    /\ fetched = {}

---------------------------------------------------------------------------
(* download_pandoc *)

\* a caller invokes download_pandoc(url, targetfolder, version)
Call(u, t, v) ==
    /\ pc \in {"idle", "done", "raised"}
    /\ runs < MaxRuns
    /\ runs' = runs + 1
    /\ url' = u /\ targetfolder' = t /\ version' = v
    /\ pandoc_urls' = <<>> /\ pf' = "" /\ filename' = ""
    /\ tempfolder' = "" /\ cur_wd' = "" /\ exe_i' = 0
    /\ exc' = "none"
    /\ log' = <<>>
    /\ entry' = [cwd |-> cwd, dirs |-> dirs, files |-> files, fetched |-> fetched]
    /\ pc' = "resolve"
    /\ UNCHANGED <<env, fs, fetched>>

\* lines 148-151
ResolveUrls ==
    /\ pc = "resolve"
    /\ version' = IF version.is_none THEN Some("1.19.1") ELSE version
    /\ pandoc_urls' = _get_pandoc_urls(version'.val)
    /\ pc' = "platform"
    /\ UNCHANGED <<env, fs, runs, exc, url, targetfolder, pf, filename, hlocal,
                   log, entry, fetched>>

\* lines 153-157
PlatformKey(sp) == IF StartsWith(sp, "linux") THEN "linux" ELSE sp

PlatformError_noarch(sp, arch, urls) ==
    IF PlatformKey(sp) \notin DOMAIN urls THEN "RuntimeError" ELSE "none"

\* lines 156-162: the error download_pandoc raises for this machine, if any
PlatformError(sp, arch, urls) ==
    IF StartsWith(sp, "linux") /\ arch # "64bit" THEN "RuntimeError"
    ELSE IF PlatformKey(sp) \notin DOMAIN urls THEN "RuntimeError"
    ELSE "none"

\* lines 153-167
CheckPlatform ==
    /\ pc = "platform"
    /\ pf' = PlatformKey(sys_platform)
    /\ LET e == PlatformError(sys_platform, architecture, pandoc_urls) IN
        IF e # "none"
        THEN /\ exc' = e
             /\ pc' = "raised"
             /\ UNCHANGED <<url, filename>>
        ELSE /\ url' = IF url.is_none THEN Some(pandoc_urls[pf']) ELSE url
             /\ filename' = LastSegment(url'.val)
             /\ pc' = "download"
             /\ exc' = "none"
    /\ UNCHANGED <<env, fs, runs, targetfolder, version, pandoc_urls, hlocal,
                   log, entry, fetched>>

isfile_never(p) == FALSE

\* line 168
ArchivePresent(p) == isfile(p)

\* lines 168-175
Download ==
    /\ pc = "download"
    /\ IF ArchivePresent(filename)
       THEN /\ pc' = "makedirs"
            /\ UNCHANGED <<files, exc, log, fetched>>
       ELSE \/ \* urlopen raises
               /\ log' = Logged("GET", FALSE)
               /\ exc' = "URLError"
               /\ pc' = "raised"
               /\ UNCHANGED <<files, fetched>>
            \/ \* open(filename, 'wb') raises
               /\ log' = Logged("GET", TRUE) \o <<Event("write", FALSE)>>
               /\ exc' = "IOError"
               /\ pc' = "raised"
               /\ UNCHANGED <<files, fetched>>
            \/ \* copyfileobj raises part way: the file is there, incomplete
               /\ filename # ""
               /\ log' = Logged("GET", TRUE) \o <<Event("write", FALSE)>>
               /\ files' = WriteFile(files, AbsPath(cwd, filename))
               /\ exc' = "IOError"
               /\ pc' = "raised"
               /\ UNCHANGED fetched
            \/ \* the archive is written
               /\ filename # ""
               /\ log' = Logged("GET", TRUE) \o <<Event("write", TRUE)>>
               /\ files' = WriteFile(files, AbsPath(cwd, filename))
               /\ fetched' = fetched \cup {AbsPath(cwd, filename)}
               /\ pc' = "makedirs"
               /\ UNCHANGED exc
    /\ UNCHANGED <<env, cwd, dirs, runs, args, locals, hlocal, entry>>

AfterOSError_reraise == "raised"

\* lines 184-185: except OSError: pass
AfterOSError == "dispatch"

\* lines 177-179: the target folder download_pandoc installs into
TargetFolder ==
    ExpandUser(IF targetfolder.is_none THEN DEFAULT_TARGET_FOLDER[pf]
               ELSE targetfolder.val)

\* lines 177-185
Makedirs ==
    /\ pc = "makedirs"
    /\ IF targetfolder.is_none /\ pf \notin DOMAIN DEFAULT_TARGET_FOLDER
       THEN /\ exc' = "KeyError"
            /\ pc' = "raised"
            /\ UNCHANGED <<dirs, targetfolder, log>>
       ELSE /\ targetfolder' = Some(TargetFolder)
            /\ UNCHANGED exc
            /\ IF AbsPath(cwd, TargetFolder) \in dirs
               THEN \* OSError: the directory exists
                    /\ log' = Logged("makedirs", FALSE)
                    /\ pc' = AfterOSError
                    /\ UNCHANGED dirs
               ELSE \/ /\ log' = Logged("makedirs", TRUE)
                       /\ dirs' = dirs \cup {AbsPath(cwd, TargetFolder)}
                       /\ pc' = "dispatch"
                    \/ \* OSError for another reason: not created
                       /\ log' = Logged("makedirs", FALSE)
                       /\ pc' = AfterOSError
                       /\ UNCHANGED dirs
    /\ UNCHANGED <<env, cwd, files, runs, url, version, locals, hlocal, entry, fetched>>

\* lines 187-190
Dispatch ==
    /\ pc = "dispatch"
    /\ IF ("_handle_" \o pf) \in Globals
       THEN pc' = "_handle_" \o pf /\ UNCHANGED exc
       ELSE pc' = "raised" /\ exc' = "AssertionError"
    /\ UNCHANGED <<env, fs, runs, args, locals, hlocal, log, entry, fetched>>

---------------------------------------------------------------------------
(* What the unpackers share *)

CheckCall_ignore(ok, next, onfail) == next

\* subprocess.check_call: a non-zero exit raises CalledProcessError
CheckCall(ok, next, onfail) == IF ok THEN next ELSE onfail

\* shutil.copyfile(src, dst) can succeed only into a directory that exists
CanCopyInto(folder) == AbsPath(cwd, folder) \in dirs

\* _make_executable(path), lines 46-50
MakeExecutable(f, path) == [f EXCEPT ![path] = _make_executable_mode(@)]

---------------------------------------------------------------------------
(* _handle_linux *)

LinuxExes == <<"pandoc", "pandoc-citeproc">>

\* lines 57-61
HandleLinuxEnter ==
    /\ pc = "_handle_linux"
    /\ tempfolder' = FreshTemp
    /\ dirs' = dirs \cup {FreshTemp}
    /\ cur_wd' = cwd
    /\ filename' = AbsPath(cwd, filename)
    /\ cwd' = FreshTemp
    /\ log' = Logged("mkdtemp", TRUE)
    /\ pc' = "l_ar"
    /\ UNCHANGED <<env, files, runs, exc, args, pandoc_urls, pf, exe_i, entry, fetched>>

\* lines 62-64
HandleLinuxAr ==
    /\ pc = "l_ar"
    /\ \E ok \in BOOLEAN :
        /\ ok => filename \in DOMAIN files
        /\ log' = Logged("ar", ok)
        /\ pc' = CheckCall(ok, "l_tar", "l_finally")
        /\ exc' = IF ok THEN exc ELSE "CalledProcessError"
    /\ UNCHANGED <<env, fs, runs, args, locals, hlocal, entry, fetched>>

\* lines 65-66
HandleLinuxTar ==
    /\ pc = "l_tar"
    /\ \E ok \in BOOLEAN :
        /\ log' = Logged("tar", ok)
        /\ pc' = CheckCall(ok, "l_copy", "l_finally")
        /\ exc' = IF ok THEN exc ELSE "CalledProcessError"
    /\ exe_i' = 1
    /\ UNCHANGED <<env, fs, runs, args, locals, tempfolder, cur_wd, entry, fetched>>

\* lines 68-72
HandleLinuxCopy ==
    /\ pc = "l_copy"
    /\ LET dst == Join(targetfolder.val, LinuxExes[exe_i]) IN
       \E ok \in BOOLEAN :
        /\ ok => CanCopyInto(targetfolder.val)
        /\ log' = LoggedCopy(dst, ok)
        /\ files' = IF ok THEN WriteFile(files, AbsPath(cwd, dst)) ELSE files
        /\ pc' = IF ok THEN "l_chmod" ELSE "l_finally"
        /\ exc' = IF ok THEN exc ELSE "IOError"
    /\ UNCHANGED <<env, cwd, dirs, runs, args, locals, hlocal, entry, fetched>>

\* line 73, and the loop of line 68
HandleLinuxChmod ==
    /\ pc = "l_chmod"
    /\ LET dst == Join(targetfolder.val, LinuxExes[exe_i]) IN
       \E ok \in BOOLEAN :
        /\ log' = Logged("chmod", ok)
        /\ files' = IF ok THEN MakeExecutable(files, AbsPath(cwd, dst)) ELSE files
        /\ exc' = IF ok THEN exc ELSE "OSError"
        /\ IF ~ok THEN pc' = "l_finally" /\ UNCHANGED exe_i
           ELSE IF exe_i < Len(LinuxExes) THEN pc' = "l_copy" /\ exe_i' = exe_i + 1
           ELSE pc' = "l_copyright" /\ UNCHANGED exe_i
    /\ UNCHANGED <<env, cwd, dirs, runs, args, locals, tempfolder, cur_wd, entry, fetched>>

\* lines 74-77
HandleLinuxCopyright ==
    /\ pc = "l_copyright"
    /\ LET dst == Join(targetfolder.val, "copyright.pandoc") IN
       \E ok \in BOOLEAN :
        /\ ok => CanCopyInto(targetfolder.val)
        /\ log' = LoggedCopy(dst, ok)
        /\ files' = IF ok THEN WriteFile(files, AbsPath(cwd, dst)) ELSE files
        /\ exc' = IF ok THEN exc ELSE "IOError"
    /\ pc' = "l_finally"
    /\ UNCHANGED <<env, cwd, dirs, runs, args, locals, hlocal, entry, fetched>>

FinallyCwd_stay == cwd

\* line 79: os.chdir(cur_wd)
FinallyCwd == cur_wd

\* lines 78-80
HandleLinuxFinally ==
    /\ pc = "l_finally"
    /\ cwd' = FinallyCwd
    /\ dirs' = RmtreeDirs(tempfolder)
    /\ files' = RmtreeFiles(tempfolder)
    /\ log' = Logged("rmtree", TRUE)
    /\ pc' = IF exc = "none" THEN "done" ELSE "raised"
    /\ UNCHANGED <<env, runs, exc, args, locals, hlocal, entry, fetched>>

---------------------------------------------------------------------------
(* _handle_darwin *)

DarwinExes == <<"pandoc", "pandoc-citeproc">>

\* lines 86-88
HandleDarwinEnter ==
    /\ pc = "_handle_darwin"
    /\ tempfolder' = FreshTemp
    /\ dirs' = dirs \cup {FreshTemp}
    /\ log' = Logged("mkdtemp", TRUE)
    /\ pc' = "d_pkgutil"
    /\ UNCHANGED <<env, cwd, files, runs, exc, args, locals, cur_wd, exe_i, entry, fetched>>

\* lines 89-91
HandleDarwinPkgutil ==
    /\ pc = "d_pkgutil"
    /\ \E ok \in BOOLEAN :
        /\ ok => isfile(filename)
        /\ log' = Logged("pkgutil", ok)
        /\ pc' = CheckCall(ok, "d_tar", "raised")
        /\ exc' = IF ok THEN exc ELSE "CalledProcessError"
    /\ UNCHANGED <<env, fs, runs, args, locals, hlocal, entry, fetched>>

\* lines 94-96
HandleDarwinTar ==
    /\ pc = "d_tar"
    /\ \E ok \in BOOLEAN :
        /\ log' = Logged("tar", ok)
        /\ pc' = CheckCall(ok, "d_copy", "raised")
        /\ exc' = IF ok THEN exc ELSE "CalledProcessError"
    /\ exe_i' = 1
    /\ UNCHANGED <<env, fs, runs, args, locals, tempfolder, cur_wd, entry, fetched>>

\* lines 99-103
HandleDarwinCopy ==
    /\ pc = "d_copy"
    /\ LET dst == Join(targetfolder.val, DarwinExes[exe_i]) IN
       \E ok \in BOOLEAN :
        /\ ok => CanCopyInto(targetfolder.val)
        /\ log' = LoggedCopy(dst, ok)
        /\ files' = IF ok THEN WriteFile(files, AbsPath(cwd, dst)) ELSE files
        /\ pc' = IF ok THEN "d_chmod" ELSE "raised"
        /\ exc' = IF ok THEN exc ELSE "IOError"
    /\ UNCHANGED <<env, cwd, dirs, runs, args, locals, hlocal, entry, fetched>>

\* line 104, and the loop of line 99
HandleDarwinChmod ==
    /\ pc = "d_chmod"
    /\ LET dst == Join(targetfolder.val, DarwinExes[exe_i]) IN
       \E ok \in BOOLEAN :
        /\ log' = Logged("chmod", ok)
        /\ files' = IF ok THEN MakeExecutable(files, AbsPath(cwd, dst)) ELSE files
        /\ exc' = IF ok THEN exc ELSE "OSError"
        /\ IF ~ok THEN pc' = "raised" /\ UNCHANGED exe_i
           ELSE IF exe_i < Len(DarwinExes) THEN pc' = "d_copy" /\ exe_i' = exe_i + 1
           ELSE pc' = "d_rmtree" /\ UNCHANGED exe_i
    /\ UNCHANGED <<env, cwd, dirs, runs, args, locals, tempfolder, cur_wd, entry, fetched>>

\* lines 106-108
HandleDarwinRmtree ==
    /\ pc = "d_rmtree"
    /\ dirs' = RmtreeDirs(tempfolder)
    /\ files' = RmtreeFiles(tempfolder)
    /\ log' = Logged("rmtree", TRUE)
    /\ pc' = "done"
    /\ UNCHANGED <<env, cwd, runs, exc, args, locals, hlocal, entry, fetched>>

---------------------------------------------------------------------------
(* _handle_win32 *)

Win32Files == <<"pandoc.exe", "pandoc-citeproc.exe", "COPYRIGHT.txt">>

\* line 114
HandleWin32Enter ==
    /\ pc = "_handle_win32"
    /\ tempfolder' = FreshTemp
    /\ dirs' = dirs \cup {FreshTemp}
    /\ log' = Logged("mkdtemp", TRUE)
    /\ pc' = "w_msiexec"
    /\ UNCHANGED <<env, cwd, files, runs, exc, args, locals, cur_wd, exe_i, entry, fetched>>

\* lines 116-118
HandleWin32Msiexec ==
    /\ pc = "w_msiexec"
    /\ \E ok \in BOOLEAN :
        /\ ok => isfile(filename)
        /\ log' = Logged("msiexec", ok)
        /\ pc' = CheckCall(ok, "w_copy", "raised")
        /\ exc' = IF ok THEN exc ELSE "CalledProcessError"
    /\ exe_i' = 1
    /\ UNCHANGED <<env, fs, runs, args, locals, tempfolder, cur_wd, entry, fetched>>

\* lines 121-125
HandleWin32Copy ==
    /\ pc = "w_copy"
    /\ LET dst == Join(targetfolder.val, Win32Files[exe_i]) IN
       \E ok \in BOOLEAN :
        /\ ok => CanCopyInto(targetfolder.val)
        /\ log' = LoggedCopy(dst, ok)
        /\ files' = IF ok THEN WriteFile(files, AbsPath(cwd, dst)) ELSE files
        /\ exc' = IF ok THEN exc ELSE "IOError"
        /\ IF ~ok THEN pc' = "raised" /\ UNCHANGED exe_i
           ELSE IF exe_i < Len(Win32Files) THEN pc' = "w_copy" /\ exe_i' = exe_i + 1
           ELSE pc' = "w_rmtree" /\ UNCHANGED exe_i
    /\ UNCHANGED <<env, cwd, dirs, runs, args, locals, tempfolder, cur_wd, entry, fetched>>

\* lines 127-129
HandleWin32Rmtree ==
    /\ pc = "w_rmtree"
    /\ dirs' = RmtreeDirs(tempfolder)
    /\ files' = RmtreeFiles(tempfolder)
    /\ log' = Logged("rmtree", TRUE)
    /\ pc' = "done"
    /\ UNCHANGED <<env, cwd, runs, exc, args, locals, hlocal, entry, fetched>>

---------------------------------------------------------------------------
(* The program *)

Next ==
    \/ \E u \in UrlArgs, t \in TargetArgs, v \in VersionArgs : Call(u, t, v)
    \/ ResolveUrls
    \/ CheckPlatform
    \/ Download
    \/ Makedirs
    \/ Dispatch
    \/ HandleLinuxEnter
    \/ HandleLinuxAr
    \/ HandleLinuxTar
    \/ HandleLinuxCopy
    \/ HandleLinuxChmod
    \/ HandleLinuxCopyright
    \/ HandleLinuxFinally
    \/ HandleDarwinEnter
    \/ HandleDarwinPkgutil
    \/ HandleDarwinTar
    \/ HandleDarwinCopy
    \/ HandleDarwinChmod
    \/ HandleDarwinRmtree
    \/ HandleWin32Enter
    \/ HandleWin32Msiexec
    \/ HandleWin32Copy
    \/ HandleWin32Rmtree

Spec == Init /\ [][Next]_vars

---------------------------------------------------------------------------
(* The URL resolver on its own: lines 148-151 over every version string *)

InitUrls ==
    /\ sys_platform = "linux"
    /\ architecture = "64bit"
    /\ umask = 18
    /\ cwd = WorkDir
    /\ dirs = {WorkDir}
    /\ files = <<>>
    /\ runs = 1
    /\ pc = "resolve"
    /\ exc = "none"
    /\ url = NoneArg /\ targetfolder = NoneArg
    /\ version \in {NoneArg} \cup {Some(v) : v \in VersionStrings}
    /\ NoLocals
    /\ log = <<>>
    /\ entry = [cwd |-> WorkDir, dirs |-> {WorkDir}, files |-> <<>>, fetched |-> {}]
    /\ fetched = {}

NextUrls == ResolveUrls

SpecUrls == InitUrls /\ [][NextUrls]_vars

---------------------------------------------------------------------------
(* Vocabulary of the properties *)

Supported == {"linux", "darwin", "win32"}
UnixLike == {"linux", "darwin"}
ExtractOps == {"ar", "tar", "pkgutil", "msiexec"}

\* the events of this invocation with the given operation
Occurrences(op) == {k \in 1..Len(log) : log[k].op = op}

\* the unpacker has returned or raised
Exited == pc \in {"done", "raised"}

\* the invocation is past the supported-platform check
PastPlatformCheck ==
    /\ pc \notin {"idle", "resolve", "platform"}
    /\ ~(pc = "raised" /\ exc = "RuntimeError")

\* the target folder as the caller named it
CallerTarget == AbsPath(entry.cwd, targetfolder.val)

PrimaryExe == IF pf = "win32" THEN "pandoc.exe" ELSE "pandoc"
LicenseNames == {"copyright.pandoc", "COPYRIGHT.txt", "COPYRIGHT", "copyright"}

Bit(m, k) == (m \div (2 ^ k)) % 2

\* n is m with, for each principal, the execute bit added where the read bit is set
ReadCopiedToExec(m, n) ==
    /\ n \in 0..511
    /\ \A k \in 0..8 :
        Bit(n, k) = 1 <=> (Bit(m, k) = 1 \/ (k \in {0, 3, 6} /\ Bit(m, k + 2) = 1))

---------------------------------------------------------------------------
(* C1: after a successful unpack on any supported platform the target      *)
(* folder holds the primary pandoc executable and a copyright/license      *)
(* artifact.                                                               *)
C1_TargetHoldsExeAndLicense ==
    pc = "done" =>
        /\ (CallerTarget \o Sep \o PrimaryExe) \in DOMAIN files
        /\ \E n \in LicenseNames : (CallerTarget \o Sep \o n) \in DOMAIN files

(* C2: on every platform, once the unpacker has returned or raised, the    *)
(* scratch directory it created no longer exists.                          *)
C2_ScratchRemovedOnEveryExit ==
    (Exited /\ tempfolder # "") => tempfolder \notin dirs

(* C3: on an unrecognized platform key, or on Linux that is not 64bit,     *)
(* download_pandoc raises its fatal error before any download and before   *)
(* any filesystem mutation: nothing attempted, no archive, no target       *)
(* folder, no scratch directory, no unpacker.                              *)
C3_UnsupportedFailsFast ==
    LET isLinux == StartsWith(sys_platform, "linux")
        unsupported == \/ (~isLinux /\ sys_platform \notin Supported)
                       \/ (isLinux /\ architecture # "64bit")
    IN  (unsupported /\ pc \notin {"idle", "resolve", "platform"}) =>
            /\ pc = "raised"
            /\ exc = "RuntimeError"
            /\ log = <<>>
            /\ cwd = entry.cwd
            /\ dirs = entry.dirs
            /\ files = entry.files
            /\ tempfolder = ""

C3_Witness ==
    /\ pc = "raised"
    /\ exc = "RuntimeError"
    /\ sys_platform = "linux2"
    /\ architecture = "32bit"
    /\ runs = 2

(* C4: one invocation calls the download channel zero times when the file  *)
(* named by the URL's last segment already exists in the working           *)
(* directory and at most once otherwise; so an invocation after a          *)
(* completed download of the same file performs no GET.                    *)
C4_DownloadAtMostOnce ==
    LET gets == Cardinality(Occurrences("GET"))
        archive == AbsPath(entry.cwd, filename)
    IN  /\ gets <= 1
        /\ (filename # "" /\ archive \in DOMAIN entry.files) => gets = 0
        /\ (filename # "" /\ archive \in entry.fetched) => gets = 0

C4_Witness ==
    /\ runs = 2
    /\ pc = "done"
    /\ Occurrences("GET") = {}
    /\ AbsPath(entry.cwd, filename) \in entry.fetched

(* C5: for every supported platform P and version V the resolved URL       *)
(* begins with the release base path, holds V as the directory segment     *)
(* and again in the file name, and ends with the platform's suffix; the    *)
(* version 1.19.1, also the default when none is given, resolves on linux  *)
(* to .../download/1.19.1/pandoc-1.19.1-1-amd64.deb.                       *)
C5_UrlShape ==
    [][pc = "resolve" =>
        LET V == IF version.is_none THEN "1.19.1" ELSE version.val
            base == "https://github.com/jgm/pandoc/releases/download/"
            lb == Len(base)
            lv == Len(V)
            suffix == [P \in Supported |->
                        IF P = "win32" THEN ".msi"
                        ELSE IF P = "linux" THEN "-1-amd64.deb" ELSE ".pkg"]
        IN  /\ \A P \in Supported :
                /\ P \in DOMAIN pandoc_urls'
                /\ LET u == pandoc_urls'[P] IN
                    /\ StartsWith(u, base)
                    /\ EndsWith(u, suffix[P])
                    /\ Len(u) >= lb + lv + 8 + lv + Len(suffix[P])
                    /\ SubSeq(u, lb + 1, lb + lv) = V
                    /\ SubSeq(u, lb + lv + 1, lb + lv + 8) = "/pandoc-"
                    /\ SubSeq(u, lb + lv + 9, lb + lv + 8 + lv) = V
            /\ V = "1.19.1" =>
                pandoc_urls'["linux"] =
                    "https://github.com/jgm/pandoc/releases/download/1.19.1/pandoc-1.19.1-1-amd64.deb"
    ]_vars

C5_Witness ==
    /\ pc = "platform"
    /\ version = Some("1.19.1")
    /\ pandoc_urls["linux"] =
        "https://github.com/jgm/pandoc/releases/download/1.19.1/pandoc-1.19.1-1-amd64.deb"

(* C6: _make_executable sets the mode m to m OR ((m AND 0o444) >> 2):      *)
(* every principal with the read bit then has the execute bit and no bit   *)
(* of m is cleared; on linux and darwin it is applied to every executable  *)
(* copied into the target folder.                                          *)
C6_ReadBitsCopiedToExec ==
    /\ [](pc = "idle" =>
            \A m \in 0..511 : ReadCopiedToExec(m, _make_executable_mode(m)))
    /\ [][(pc \in {"l_chmod", "d_chmod"} /\ pc' \notin {"l_finally", "raised"}) =>
            LET p == AbsPath(cwd, Join(targetfolder.val, LinuxExes[exe_i]))
            IN  ReadCopiedToExec(files[p], files'[p])]_vars
    /\ [](pf \in UnixLike =>
            \A k \in Occurrences("copy") :
                (log[k].ok /\ LastSegment(log[k].arg) \in {"pandoc", "pandoc-citeproc"}) =>
                    IF k = Len(log) THEN pc \in {"l_chmod", "d_chmod"}
                    ELSE log[k + 1].op = "chmod")

C6_Witness ==
    /\ pc = "done"
    /\ pf = "darwin"
    /\ umask = 23
    /\ (CallerTarget \o Sep \o "pandoc-citeproc") \in DOMAIN files
    /\ files[CallerTarget \o Sep \o "pandoc-citeproc"] = 488

(* C7: creating the target folder is idempotent: when the folder already   *)
(* exists download_pandoc does not fail at the directory-creation step,    *)
(* leaves the folder and what it holds in place and goes on to dispatch    *)
(* the unpacker.                                                           *)
C7_MakedirsIdempotent ==
    /\ [][(pc = "makedirs" /\ AbsPath(cwd, TargetFolder) \in dirs) =>
            /\ pc' = "dispatch"
            /\ exc' = "none"
            /\ dirs' = dirs
            /\ files' = files]_vars
    /\ [][pc = "dispatch" =>
            pc' \in {"_handle_linux", "_handle_darwin", "_handle_win32"}]_vars

C7_Witness ==
    /\ runs = 2
    /\ pc = "dispatch"
    /\ log[Len(log)] = Event("makedirs", FALSE)
    /\ CallerTarget \in entry.dirs
    /\ (CallerTarget \o Sep \o PrimaryExe) \in DOMAIN entry.files

C9_LinuxRestoresCwd ==
    (pf = "linux" /\ tempfolder # "" /\ Exited) => (cwd = entry.cwd /\ cwd = cur_wd)

C9_Witness ==
    /\ pf = "linux"
    /\ pc = "raised"
    /\ exc = "OSError"
    /\ tempfolder # ""
    /\ cwd = entry.cwd

(* C10: every platform key that passes the supported-platform check has    *)
(* an entry in DEFAULT_TARGET_FOLDER and a handler _handle_<key>: the      *)
(* default-folder lookup never fails and the assertion on the handler      *)
(* holds in every run that reaches the dispatch.                           *)
C10_DispatchTotal ==
    PastPlatformCheck =>
        /\ pf \in DOMAIN pandoc_urls
        /\ pf \in DOMAIN DEFAULT_TARGET_FOLDER
        /\ ("_handle_" \o pf) \in Globals
        /\ exc \notin {"KeyError", "AssertionError"}

C10_Witness ==
    /\ pc = "_handle_darwin"
    /\ url.val = "https://github.com/jgm/pandoc/releases/download/1.19.1/pandoc-1.19.1-osx.pkg"
    /\ targetfolder.val = "/home/u/Applications/pandoc"

====
